---------------------------- MODULE Spec2Model ----------------------------
(***************************************************************************)
(* Model of sitemap-url-counter (src/src/main.rs).                         *)
(*                                                                         *)
(* Two state machines share the definitions of the two streaming scanners: *)
(*   ScanSpec  one scanner loop (extract_sitemaps or count_urls) reading   *)
(*             the events of quick_xml's Reader one at a time;             *)
(*   Spec      one run of main: arguments, HTTP client, root fetch, root   *)
(*             scan, leaf loop, report.  FairSpec is Spec with weak        *)
(*             fairness of the run's steps.                                *)
(***************************************************************************)
EXTENDS Integers, Sequences, FiniteSets, TLC

VARIABLES
    fn,      \* ScanSpec: the scanner being run, "extract_sitemaps" or "count_urls"
    open,    \* ScanSpec: the Reader's stack of opened element names
    nread,   \* ScanSpec: number of events read so far
    event,   \* ScanSpec: the event the loop has just matched on
    stray,   \* ScanSpec: history: some text node read so far was not directly
             \*           inside a loc element
    scan,    \* ScanSpec: the scanner's locals (flags, output, status)
    plain,   \* ScanSpec: the same scanner fed the same stream with every
             \*           namespace prefix and attribute removed
    run,     \* Spec: the run of main started with the given arguments
    twin     \* Spec: the run started with the --debug argument toggled,
             \*       given the same environment outcomes

vars == <<fn, open, nread, event, stray, scan, plain, run, twin>>

----------------------------------------------------------------------------
(* Bounds *)

MaxEvents == 7      \* events per stream read in ScanSpec
MaxDepth == 3       \* nesting depth of the streams read in ScanSpec
MaxEntries == 2     \* entries per served document in Spec

----------------------------------------------------------------------------
(* XML events as quick_xml's Reader yields them *)

Prefixes == {"", "sm"}
Locals == {"sitemap", "url", "loc", "lastmod"}

\* text chunks: two URLs, whitespace, a bare ampersand (what "&amp;" is
\* once clean_xml_content has run over the document)
Texts == {"a", "b", " ", "&"}

NoName == [prefix |-> "", local |-> ""]

Names == [prefix : Prefixes, local : Locals]

Ev(t, n, x, at) == [type |-> t, name |-> n, text |-> x, attrs |-> at]

StartEv(n, at) == Ev("Start", n, "", at)
EndEv(n) == Ev("End", n, "", FALSE)
EmptyEv(n, at) == Ev("Empty", n, "", at)
TextEv(x) == Ev("Text", NoName, x, FALSE)
CDataEv == Ev("CData", NoName, "", FALSE)
EofEv == Ev("Eof", NoName, "", FALSE)
ErrEv == Ev("Err", NoName, "", FALSE)
NoEvent == Ev("None", NoName, "", FALSE)

\* e.name().as_ref() == b"<n>": the comparison is on the qualified name, so a
\* prefixed tag (sm:url) is not the tag url; attributes are not part of it.
NameIs(e, n) == e.name.prefix = "" /\ e.name.local = n

\* BytesText::unescape: a bare "&" is an unterminated entity (an error);
\* the predefined entities are replaced, other text is returned as it is
UnescapeFails(x) == x = "&"

Unescape(x) ==
    IF x = "&amp;" THEN "&"
    ELSE IF x = "&lt;" THEN "<"
    ELSE x

Top(s) == s[Len(s)]
Pop(s) == SubSeq(s, 1, Len(s) - 1)

----------------------------------------------------------------------------
(* extract_sitemaps: one iteration of the loop on event e *)

extract_sitemaps_init ==
    [in_sitemap |-> FALSE, in_loc |-> FALSE, sitemaps |-> <<>>, status |-> "reading"]

extract_sitemaps_step(s, e) ==
    IF e.type = "Eof" THEN [s EXCEPT !.status = "ok"]
    ELSE IF e.type = "Err" THEN [s EXCEPT !.status = "err"]
    ELSE IF e.type = "Start" /\ NameIs(e, "sitemap") THEN [s EXCEPT !.in_sitemap = TRUE]
    ELSE IF e.type = "End" /\ NameIs(e, "sitemap") THEN [s EXCEPT !.in_sitemap = FALSE]
    ELSE IF e.type = "Start" /\ s.in_sitemap /\ NameIs(e, "loc") THEN [s EXCEPT !.in_loc = TRUE]
    ELSE IF e.type = "Text" /\ s.in_loc THEN
        IF UnescapeFails(e.text) THEN [s EXCEPT !.status = "err"]
        ELSE [s EXCEPT !.sitemaps = Append(@, Unescape(e.text)), !.in_loc = FALSE]
    ELSE s

(* count_urls: one iteration of the loop on event e *)

count_urls_init ==
    [in_url |-> FALSE, in_loc |-> FALSE, count |-> 0, status |-> "reading"]

count_urls_step(s, e) ==
    IF e.type = "Start" /\ NameIs(e, "url") THEN [s EXCEPT !.in_url = TRUE]
    ELSE IF e.type = "End" /\ NameIs(e, "url") THEN [s EXCEPT !.in_url = FALSE]
    ELSE IF e.type = "Start" /\ s.in_url /\ NameIs(e, "loc") THEN [s EXCEPT !.in_loc = TRUE]
    ELSE IF e.type = "Text" /\ s.in_loc THEN
        IF UnescapeFails(e.text) THEN [s EXCEPT !.status = "err"]
        ELSE [s EXCEPT !.count = @ + 1, !.in_loc = FALSE]
    ELSE IF e.type = "Eof" THEN [s EXCEPT !.status = "ok"]
    ELSE IF e.type = "Err" THEN [s EXCEPT !.status = "err"]
    ELSE s

----------------------------------------------------------------------------
(* The Reader: the events it can yield next, given the opened elements.     *)
(* An End event closes the innermost opened element (check_end_names); any  *)
(* other end tag, and any other malformed input, is an Err.  With           *)
(* trim_text(true) whitespace-only text is not reported.  A stream ends     *)
(* after MaxEvents events: with Eof when every element is closed, else Err. *)

ReaderEvents(stack, trim, n) ==
    IF n >= MaxEvents THEN (IF stack = <<>> THEN {EofEv} ELSE {ErrEv})
    ELSE
        {ErrEv}
        \cup (IF stack = <<>> THEN {EofEv} ELSE {EndEv(Top(stack))})
        \cup (IF Len(stack) < MaxDepth
                THEN {StartEv(nm, at) : nm \in Names, at \in BOOLEAN}
                ELSE {})
        \cup {EmptyEv(nm, FALSE) : nm \in Names}
        \cup {TextEv(x) : x \in (IF trim THEN Texts \ {" "} ELSE Texts)}
        \cup {CDataEv}

ReaderStack(stack, e) ==
    IF e.type = "Start" THEN Append(stack, e.name)
    ELSE IF e.type = "End" THEN Pop(stack)
    ELSE stack

\* the same event in the document without namespace prefixes and attributes
Unqualified(e) ==
    [e EXCEPT !.name = [prefix |-> "", local |-> e.name.local], !.attrs = FALSE]

\* the innermost opened element is a loc element (by local name)
DirectlyInLoc(stack) == stack # <<>> /\ Top(stack).local = "loc"

----------------------------------------------------------------------------
(* ScanSpec *)

IdleRun == [pc |-> "idle"]

ScanInit ==
    /\ fn \in {"extract_sitemaps", "count_urls"}
    /\ open = <<>>
    /\ nread = 0
    /\ event = NoEvent
    /\ stray = FALSE
    /\ scan = (IF fn = "extract_sitemaps" THEN extract_sitemaps_init ELSE count_urls_init)
    /\ plain = scan
    /\ run = IdleRun
    /\ twin = IdleRun

\* one iteration of extract_sitemaps' loop (Reader built with trim_text(true))
ExtractLoop ==
    /\ fn = "extract_sitemaps"
    /\ scan.status = "reading"
    /\ \E e \in ReaderEvents(open, TRUE, nread) :
        /\ scan' = extract_sitemaps_step(scan, e)
        /\ plain' = (IF plain.status = "reading"
                       THEN extract_sitemaps_step(plain, Unqualified(e)) ELSE plain)
        /\ open' = ReaderStack(open, e)
        /\ event' = e
        /\ stray' = (stray \/ (e.type = "Text" /\ ~DirectlyInLoc(open)))
    /\ nread' = nread + 1
    /\ UNCHANGED <<fn, run, twin>>

\* one iteration of count_urls' loop (Reader with the default configuration)
CountLoop ==
    /\ fn = "count_urls"
    /\ scan.status = "reading"
    /\ \E e \in ReaderEvents(open, FALSE, nread) :
        /\ scan' = count_urls_step(scan, e)
        /\ plain' = (IF plain.status = "reading"
                       THEN count_urls_step(plain, Unqualified(e)) ELSE plain)
        /\ open' = ReaderStack(open, e)
        /\ event' = e
        /\ stray' = (stray \/ (e.type = "Text" /\ ~DirectlyInLoc(open)))
    /\ nread' = nread + 1
    /\ UNCHANGED <<fn, run, twin>>

ScanNext == ExtractLoop \/ CountLoop

ScanSpec == ScanInit /\ [][ScanNext]_vars

----------------------------------------------------------------------------
(* Whole scanners: the loops above run over the events of a document *)

IsSpace(x) == x = " "

\* Reader::from_str(content) read to the end; trim is trim_text(true)
ReadEvents(content, trim) ==
    SelectSeq(content, LAMBDA e : ~(trim /\ e.type = "Text" /\ IsSpace(e.text)))
        \o <<EofEv>>

RECURSIVE ExtractFrom(_, _, _)
ExtractFrom(s, evs, k) ==
    IF s.status # "reading" \/ k > Len(evs) THEN s
    ELSE ExtractFrom(extract_sitemaps_step(s, evs[k]), evs, k + 1)

extract_sitemaps(content) ==
    ExtractFrom(extract_sitemaps_init, ReadEvents(content, TRUE), 1)

RECURSIVE CountFrom(_, _, _)
CountFrom(s, evs, k) ==
    IF s.status # "reading" \/ k > Len(evs) THEN s
    ELSE CountFrom(count_urls_step(s, evs[k]), evs, k + 1)

count_urls(content) ==
    CountFrom(count_urls_init, ReadEvents(content, FALSE), 1)

----------------------------------------------------------------------------
(* Documents a server can return: a root element holding up to MaxEntries   *)
(* entries, followed by a newline.  Text is raw (entities not yet replaced). *)

Plain(l) == [prefix |-> "", local |-> l]

Element(l, body) == <<StartEv(Plain(l), FALSE)>> \o body \o <<EndEv(Plain(l))>>

LocOf(x) == Element("loc", <<TextEv(x)>>)

EntryShapes ==
    { Element("sitemap", LocOf("a")),            \* <sitemap><loc>a</loc></sitemap>
      Element("sitemap", LocOf("b")),
      Element("url", LocOf("p")),                \* <url><loc>p</loc></url>
      LocOf("p"),                                \* <loc>p</loc> outside any url
      Element("url", Element("loc", <<>>)        \* <url><loc></loc><lastmod>t</lastmod></url>
                       \o Element("lastmod", <<TextEv("t")>>)),
      Element("url", LocOf("&amp;")),            \* <url><loc>&amp;</loc></url>
      <<TextEv(" ")>>,                           \* whitespace between entries
      <<ErrEv>> }                                \* malformed markup

RECURSIVE EntryLists(_)
EntryLists(n) ==
    IF n = 0 THEN {<<>>}
    ELSE LET shorter == EntryLists(n - 1)
         IN  shorter \cup {l \o e : l \in shorter, e \in EntryShapes}

\* the Reader reports adjacent text as one event
NoAdjacentText(d) ==
    \A i \in 1..(Len(d) - 1) : ~(d[i].type = "Text" /\ d[i + 1].type = "Text")

RawDocs ==
    {Element("urlset", body) \o <<TextEv(" ")>> :
        body \in {b \in EntryLists(MaxEntries) : NoAdjacentText(b)}}

----------------------------------------------------------------------------
(* clean_xml_content: the four replace calls in their order, then trim.     *)
(* Of the raw text chunks served here only "&amp;" holds one of the four    *)
(* sequences; "&amp;lt;" is the doubly escaped case, which the last replace *)
(* turns into "&lt;" and no further.                                        *)

ReplaceEntities(x) ==
    IF x = "&amp;" THEN "&"
    ELSE IF x = "&amp;lt;" THEN "&lt;"
    ELSE x

RECURSIVE TrimStart(_)
TrimStart(d) ==
    IF d # <<>> /\ d[1].type = "Text" /\ IsSpace(d[1].text) THEN TrimStart(Tail(d)) ELSE d

RECURSIVE TrimEnd(_)
TrimEnd(d) ==
    IF d # <<>> /\ Top(d).type = "Text" /\ IsSpace(Top(d).text) THEN TrimEnd(Pop(d)) ELSE d

clean_xml_content(content) ==
    TrimEnd(TrimStart(
        [i \in DOMAIN content |->
            IF content[i].type = "Text"
                THEN TextEv(ReplaceEntities(content[i].text))
                ELSE content[i]]))

----------------------------------------------------------------------------
(* fetch_url: what one run of curl can come to.                             *)
(*   spawn_fail  curl could not be executed                                 *)
(*   curl_fail   curl exited with a non-success status                      *)
(*   bad_utf8    the output is not valid UTF-8                              *)
(*   hang        the server never answers: curl is run without a time      *)
(*               limit (the client built with timeout(15 s) is not used),   *)
(*               so Command::output() does not return                       *)
(*   ok          the body; cut500 says that byte 500 of the body is not a   *)
(*               character boundary (the body is longer than 500 bytes and  *)
(*               a multi-byte character lies across that offset)            *)

NoBody == <<>>

Responses ==
    [kind : {"ok"}, body : RawDocs, cut500 : BOOLEAN]
    \cup [kind : {"spawn_fail", "curl_fail", "bad_utf8", "hang"},
          body : {NoBody}, cut500 : {FALSE}]

FetchResult(st, content, lines) == [status |-> st, content |-> content, lines |-> lines]

fetch_url(url, debug, resp) ==
    IF resp.kind = "hang" THEN FetchResult("hang", NoBody, 0)
    ELSE IF resp.kind \in {"spawn_fail", "curl_fail", "bad_utf8"}
        THEN FetchResult("err", NoBody, 0)
    \* &content[..min(500, content.len())] panics off a character boundary
    ELSE IF debug /\ resp.cut500 THEN FetchResult("panic", NoBody, 1)
    ELSE FetchResult("ok", clean_xml_content(resp.body), IF debug THEN 3 ELSE 0)

----------------------------------------------------------------------------
(* main: the state of one run, and its steps.                               *)
(*   report, total   the per-sitemap lines and the total line printed       *)
(*                   (<<>> while not printed); the lines are a set because  *)
(*                   the HashMap yields them in no fixed order              *)
(*   exit            <<>> while running, else <<status>>                    *)
(*   fetched         the URLs curl was run on, in order                     *)
(*   counted         the (sitemap, count) pairs of the finished loop        *)
(*                   iterations, in order                                   *)
(*   root_children   what extract_sitemaps returned for the root document   *)
(*   failed_step     the step whose failure was returned, "none" if none    *)

ArgVectors ==
    { <<"prog">>,
      <<"prog", "r">>,
      <<"prog", "r", "--debug">>,
      <<"prog", "r", "-v">>,
      <<"prog", "r", "--debug", "x">> }

\* the same command line with the --debug argument added or removed
ToggleDebug(args) ==
    IF Len(args) = 2 THEN Append(args, "--debug")
    ELSE IF Len(args) = 3 /\ args[3] = "--debug" THEN SubSeq(args, 1, 2)
    ELSE args

InitRun(args) ==
    [ pc |-> "args", args |-> args, main_sitemap_url |-> "", debug |-> FALSE,
      sitemap_urls |-> <<>>, next |-> 1, content |-> NoBody, url_counts |-> <<>>,
      report |-> {}, total |-> <<>>, exit |-> <<>>, debug_lines |-> 0,
      fetched |-> <<>>, counted |-> <<>>, root_children |-> <<>>,
      failed_step |-> "none" ]

\* `?` on an Err: main returns it, the runtime prints it and exits with 1
Abort(r, step) == [r EXCEPT !.pc = "failed", !.exit = <<1>>, !.failed_step = step]

\* a panic unwinds out of main: exit status 101
Panic(r) == [r EXCEPT !.pc = "panicked", !.exit = <<101>>, !.content = NoBody]

\* lines 21-27
main_args(r) ==
    IF Len(r.args) < 2 \/ Len(r.args) > 3
        THEN [r EXCEPT !.pc = "usage", !.exit = <<1>>]
        ELSE [r EXCEPT !.pc = "client",
                       !.main_sitemap_url = r.args[2],
                       !.debug = (Len(r.args) = 3 /\ r.args[3] = "--debug")]

\* lines 29-34
main_client(r, built) ==
    IF built THEN [r EXCEPT !.pc = "fetch_root"] ELSE Abort(r, "client")

\* line 35
main_fetch_root(r, resp) ==
    LET got == fetch_url(r.main_sitemap_url, r.debug, resp)
        r1 == [r EXCEPT !.fetched = Append(@, r.main_sitemap_url),
                        !.debug_lines = @ + got.lines]
    IN  IF got.status = "hang" THEN [r1 EXCEPT !.pc = "blocked"]
        ELSE IF got.status = "panic" THEN Panic(r1)
        ELSE IF got.status = "err" THEN Abort(r1, "fetch_root")
        ELSE [r1 EXCEPT !.pc = "extract", !.content = got.content]

\* lines 37-48
main_extract(r) ==
    LET res == extract_sitemaps(r.content)
    IN  IF res.status = "err"
            THEN Abort([r EXCEPT !.debug_lines = @ + (IF r.debug THEN 1 ELSE 0)],
                       "extract")
            ELSE [r EXCEPT !.pc = "fetch_leaf",
                           !.root_children = res.sitemaps,
                           !.sitemap_urls = IF res.sitemaps = <<>>
                                              THEN <<r.main_sitemap_url>>
                                              ELSE res.sitemaps,
                           !.next = 1,
                           !.content = NoBody,
                           !.url_counts = <<>>,
                           !.debug_lines = @ + (IF r.debug THEN 2 ELSE 0)]

\* lines 50-54
main_fetch_leaf(r, resp) ==
    LET sitemap_url == r.sitemap_urls[r.next]
        got == fetch_url(sitemap_url, r.debug, resp)
        r1 == [r EXCEPT !.fetched = Append(@, sitemap_url),
                        !.debug_lines = @ + (IF r.debug THEN 1 ELSE 0) + got.lines]
    IN  IF got.status = "hang" THEN [r1 EXCEPT !.pc = "blocked"]
        ELSE IF got.status = "panic" THEN Panic(r1)
        ELSE IF got.status = "err" THEN Abort(r1, "fetch_leaf")
        ELSE [r1 EXCEPT !.pc = "count", !.content = got.content]

\* mutant: an insert that keeps the count already recorded for the key
InsertIfAbsent(m, k, v) ==
    [u \in (DOMAIN m) \cup {k} |-> IF u \in DOMAIN m THEN m[u] ELSE v]

\* url_counts.insert(sitemap_url.clone(), count)
Insert(m, k, v) == [u \in (DOMAIN m) \cup {k} |-> IF u = k THEN v ELSE m[u]]

\* mutant: a leaf that cannot be counted is recorded with 0 and the loop goes on
main_count_lenient(r) ==
    LET sitemap_url == r.sitemap_urls[r.next]
        res == count_urls(r.content)
        n == IF res.status = "err" THEN 0 ELSE res.count
    IN  [r EXCEPT !.url_counts = Insert(@, sitemap_url, n),
                  !.counted = Append(@, [url |-> sitemap_url, count |-> n]),
                  !.failed_step = IF res.status = "err" THEN "count" ELSE @,
                  !.debug_lines = @ + (IF r.debug THEN 2 ELSE 0),
                  !.content = NoBody,
                  !.next = @ + 1,
                  !.pc = IF r.next + 1 > Len(r.sitemap_urls)
                           THEN "report" ELSE "fetch_leaf"]

\* mutant: the sitemaps a leaf names are queued behind the leaf list
main_count_follow(r) ==
    LET sitemap_url == r.sitemap_urls[r.next]
        res == count_urls(r.content)
        more == extract_sitemaps(r.content)
        urls == IF more.status = "ok" /\ Len(r.sitemap_urls) < MaxEntries + 1
                  THEN r.sitemap_urls \o more.sitemaps ELSE r.sitemap_urls
    IN  IF res.status = "err" THEN Abort(r, "count")
        ELSE [r EXCEPT !.url_counts = Insert(@, sitemap_url, res.count),
                       !.counted = Append(@, [url |-> sitemap_url, count |-> res.count]),
                       !.sitemap_urls = urls,
                       !.debug_lines = @ + (IF r.debug THEN 2 ELSE 0),
                       !.content = NoBody,
                       !.next = @ + 1,
                       !.pc = IF r.next + 1 > Len(urls) THEN "report" ELSE "fetch_leaf"]

\* lines 55-66
main_count(r) ==
    LET sitemap_url == r.sitemap_urls[r.next]
        res == count_urls(r.content)
    IN  IF res.status = "err" THEN Abort(r, "count")
        ELSE [r EXCEPT !.url_counts = Insert(@, sitemap_url, res.count),
                       !.counted = Append(@, [url |-> sitemap_url, count |-> res.count]),
                       !.debug_lines = @ + (IF r.debug THEN 2 ELSE 0),
                       !.content = NoBody,
                       !.next = @ + 1,
                       !.pc = IF r.next + 1 > Len(r.sitemap_urls)
                                THEN "report" ELSE "fetch_leaf"]

RECURSIVE SumValues(_)
SumValues(m) ==
    IF DOMAIN m = {} THEN 0
    ELSE LET k == CHOOSE u \in DOMAIN m : TRUE
         IN  m[k] + SumValues([u \in (DOMAIN m) \ {k} |-> m[u]])

\* lines 68-77
main_report(r) ==
    [r EXCEPT !.total = <<SumValues(r.url_counts)>>,
              !.report = {[url |-> u, count |-> r.url_counts[u]] : u \in DOMAIN r.url_counts},
              !.exit = <<0>>,
              !.pc = "done"]

----------------------------------------------------------------------------
(* Spec: the run and its twin take each step on the same outcome of the     *)
(* environment.                                                             *)

IdleScan == [status |-> "idle"]

Init ==
    /\ \E args \in ArgVectors :
        /\ run = InitRun(args)
        /\ twin = InitRun(ToggleDebug(args))
    /\ fn = "none"
    /\ open = <<>>
    /\ nread = 0
    /\ event = NoEvent
    /\ stray = FALSE
    /\ scan = IdleScan
    /\ plain = IdleScan

At(pc) == run.pc = pc \/ twin.pc = pc

ScanIdle == UNCHANGED <<fn, open, nread, event, stray, scan, plain>>

ParseArgs ==
    /\ At("args")
    /\ run' = (IF run.pc = "args" THEN main_args(run) ELSE run)
    /\ twin' = (IF twin.pc = "args" THEN main_args(twin) ELSE twin)
    /\ ScanIdle

BuildClient ==
    /\ At("client")
    /\ \E built \in BOOLEAN :
        /\ run' = (IF run.pc = "client" THEN main_client(run, built) ELSE run)
        /\ twin' = (IF twin.pc = "client" THEN main_client(twin, built) ELSE twin)
    /\ ScanIdle

FetchRoot ==
    /\ At("fetch_root")
    /\ \E resp \in Responses :
        /\ run' = (IF run.pc = "fetch_root" THEN main_fetch_root(run, resp) ELSE run)
        /\ twin' = (IF twin.pc = "fetch_root" THEN main_fetch_root(twin, resp) ELSE twin)
    /\ ScanIdle

ExtractSitemaps ==
    /\ At("extract")
    /\ run' = (IF run.pc = "extract" THEN main_extract(run) ELSE run)
    /\ twin' = (IF twin.pc = "extract" THEN main_extract(twin) ELSE twin)
    /\ ScanIdle

FetchLeaf ==
    /\ At("fetch_leaf")
    /\ \E resp \in Responses :
        /\ run' = (IF run.pc = "fetch_leaf" THEN main_fetch_leaf(run, resp) ELSE run)
        /\ twin' = (IF twin.pc = "fetch_leaf" THEN main_fetch_leaf(twin, resp) ELSE twin)
    /\ ScanIdle

CountUrls ==
    /\ At("count")
    /\ run' = (IF run.pc = "count" THEN main_count(run) ELSE run)
    /\ twin' = (IF twin.pc = "count" THEN main_count(twin) ELSE twin)
    /\ ScanIdle

Report ==
    /\ At("report")
    /\ run' = (IF run.pc = "report" THEN main_report(run) ELSE run)
    /\ twin' = (IF twin.pc = "report" THEN main_report(twin) ELSE twin)
    /\ ScanIdle

Next ==
    \/ ParseArgs
    \/ BuildClient
    \/ FetchRoot
    \/ ExtractSitemaps
    \/ FetchLeaf
    \/ CountUrls
    \/ Report

Spec == Init /\ [][Next]_vars

\* the process is scheduled: a step that can be taken is taken
FairSpec == Spec /\ WF_vars(Next)

----------------------------------------------------------------------------
(* Claims about the scanners (ScanSpec) *)

\* some opened element named loc (by local name) lies inside an opened
\* element named parent
InsideLocInside(stack, parent) ==
    \E i, j \in DOMAIN stack :
        i < j /\ stack[i].local = parent /\ stack[j].local = "loc"

\* C4: count_urls increments its counter on a text node only if that text
\* node lies inside a loc element that is itself inside a url element.
C4_CountsOnlyQualifyingText ==
    [][(fn = "count_urls" /\ scan'.count > scan.count)
          => InsideLocInside(open, "url")]_vars

\* C5: every entry extract_sitemaps appends to its output is a text node that
\* lies inside a loc element inside a sitemap element.
C5_OnlyLocInSitemapExtracted ==
    [][(fn = "extract_sitemaps" /\ Len(scan'.sitemaps) > Len(scan.sitemaps))
          => InsideLocInside(open, "sitemap")]_vars

\* what a scanner returns: Err, or Ok with the sequence or the count
Returned(s) ==
    IF s.status # "ok" THEN <<s.status>>
    ELSE IF fn = "extract_sitemaps" THEN <<"ok", s.sitemaps>>
    ELSE <<"ok", s.count>>

\* C6: the scanners match by local tag name only: the result on a document
\* equals the result on the same document with the namespace prefixes and the
\* attributes of its tags removed (stated for the documents whose text all
\* lies directly inside loc elements).
C6_PrefixAndAttributesIgnored ==
    (scan.status = "ok" /\ plain.status = "ok" /\ ~stray)
        => Returned(scan) = Returned(plain)

\* C10: after every event the inner flag implies the outer flag: in_loc is
\* set only while in_sitemap (extract_sitemaps) or in_url (count_urls) is set.
C10_InnerFlagImpliesOuter ==
    /\ fn = "extract_sitemaps" => (scan.in_loc => scan.in_sitemap)
    /\ fn = "count_urls" => (scan.in_loc => scan.in_url)

----------------------------------------------------------------------------
(* Claims about the run (Spec, FairSpec) *)

Range(q) == {q[i] : i \in DOMAIN q}

IsPrefix(p, q) == Len(p) <= Len(q) /\ SubSeq(q, 1, Len(p)) = p

\* the count of the last finished loop iteration for sitemap u
LastCount(log, u) ==
    log[CHOOSE i \in DOMAIN log :
            /\ log[i].url = u
            /\ \A j \in DOMAIN log : log[j].url = u => j <= i].count

RECURSIVE SumLastCounts(_, _)
SumLastCounts(log, urls) ==
    IF urls = {} THEN 0
    ELSE LET u == CHOOSE x \in urls : TRUE
         IN  LastCount(log, u) + SumLastCounts(log, urls \ {u})

\* the leaf list the root document calls for
LeafList(r) ==
    IF r.root_children = <<>> THEN <<r.main_sitemap_url>> ELSE r.root_children

\* C1: in a run that completes, the URL Count Record has exactly one entry per
\* distinct leaf sitemap URL, holding the count of that URL's last
\* processing, and the printed total is the sum of these entries.
C1_TotalIsSumOfRecord ==
    run.pc = "done" =>
        /\ DOMAIN run.url_counts = Range(run.sitemap_urls)
        /\ \A u \in DOMAIN run.url_counts :
              run.url_counts[u] = LastCount(run.counted, u)
        /\ run.total = <<SumLastCounts(run.counted, Range(run.sitemap_urls))>>
        /\ run.report = {[url |-> u, count |-> LastCount(run.counted, u)] :
                            u \in Range(run.sitemap_urls)}

\* a completed run whose leaf list names one URL twice, counted differently
C1_Witness ==
    /\ run.pc = "done"
    /\ Len(run.sitemap_urls) = 2
    /\ run.sitemap_urls[1] = run.sitemap_urls[2]
    /\ run.counted[1].count # run.counted[2].count
    /\ run.total = <<run.counted[2].count>>

\* C2: the leaf list is the scanner's result on the root document when that
\* is non-empty, and [root URL] when it is empty; in the fallback case the
\* root is fetched and counted as the only leaf, its count is the total, and
\* counting a well-formed root document is never an error.
C2_FallbackCountsRoot ==
    /\ run.pc \in {"fetch_leaf", "count", "report", "done"} =>
          run.sitemap_urls = LeafList(run)
    /\ run.failed_step = "extract" =>
          extract_sitemaps(run.content).status = "err"
    /\ (run.pc = "done" /\ run.root_children = <<>>) =>
          /\ run.fetched = <<run.main_sitemap_url, run.main_sitemap_url>>
          /\ Len(run.counted) = 1
          /\ run.counted[1].url = run.main_sitemap_url
          /\ run.total = <<run.counted[1].count>>
    /\ (run.failed_step = "count" /\ run.root_children = <<>>) =>
          \E i \in DOMAIN run.content : run.content[i].type = "Err"

\* C3: a failed fetch or scan aborts the run at that point: no later leaf is
\* fetched, nothing of the report is printed and the exit status is not 0;
\* the exit status is 0 only when every fetch and every scan succeeded.
C3_AllOrNothing ==
    /\ run.failed_step # "none" =>
          /\ run.pc = "failed"
          /\ run.exit # <<>> /\ run.exit # <<0>>
          /\ run.total = <<>>
          /\ run.report = {}
    /\ run.failed_step \in {"client"} => run.fetched = <<>>
    /\ run.failed_step \in {"fetch_root", "extract"} =>
          (Len(run.fetched) = 1 /\ run.counted = <<>>)
    /\ run.failed_step \in {"fetch_leaf", "count"} =>
          Len(run.fetched) = Len(run.counted) + 2
    /\ run.exit = <<0>> =>
          /\ run.failed_step = "none"
          /\ run.pc = "done"
          /\ Len(run.fetched) = 1 + Len(run.sitemap_urls)
          /\ Len(run.counted) = Len(run.sitemap_urls)

\* the count of the second leaf failed after the first leaf was counted
C3_Witness ==
    /\ run.pc = "failed"
    /\ run.failed_step = "count"
    /\ Len(run.counted) = 1
    /\ Len(run.sitemap_urls) = 2

\* C9: the fetches are the root URL, then the entries of the leaf list in
\* order, each once; the count of a leaf is recorded before the next leaf is
\* fetched; nothing found in a leaf document is fetched.
C9_FetchOrder ==
    /\ run.fetched # <<>> =>
          IsPrefix(run.fetched, <<run.main_sitemap_url>> \o LeafList(run))
    /\ run.pc = "done" =>
          run.fetched = <<run.main_sitemap_url>> \o LeafList(run)
    /\ Len(run.fetched) >= 2 =>
          /\ Len(run.counted) \in {Len(run.fetched) - 2, Len(run.fetched) - 1}
          /\ \A j \in DOMAIN run.counted : run.counted[j].url = run.fetched[j + 1]
    /\ run.pc = "fetch_leaf" => Len(run.counted) = Len(run.fetched) - 1

\* the leaf just fetched is itself a sitemap index naming a sitemap that is
\* not in the leaf list: it is about to be counted, and the sitemap it names
\* is never fetched
C9_Witness ==
    /\ run.pc = "count"
    /\ Len(run.fetched) = 2
    /\ \E u \in Range(extract_sitemaps(run.content).sitemaps) :
          u \notin Range(run.sitemap_urls) \cup {run.main_sitemap_url}

Finished(r) == r.pc \in {"done", "failed", "usage", "panicked"}

Outcome(r) == [success |-> (r.exit = <<0>>), total |-> r.total, report |-> r.report]

\* C7: a run with the debug flag and a run without it, given the same
\* documents, end with the same outcome: the same success or failure, the
\* same per-sitemap counts and the same total.
C7_DebugIsObservabilityOnly ==
    (Finished(run) /\ Finished(twin)) => Outcome(run) = Outcome(twin)

\* C8: every run eventually terminates, with the report or with an error.
C8_RunTerminates == <>Finished(run)

=============================================================================
